---- MODULE Spec2Model ----
(***************************************************************************)
(* Model of src/src/monitor_ebpf.c: three tracepoint handlers              *)
(* (sys_enter_openat, sys_enter_write, sys_enter_unlinkat) that fill a     *)
(* stack-local struct data_t and hand it to the per-CPU perf output        *)
(* channel `events`.                                                       *)
(*                                                                         *)
(* Each CPU runs at most one handler invocation at a time; pc[c] is the    *)
(* source line the invocation on CPU c executes next (0 = no handler       *)
(* running).  An action models a run of consecutive statements that touch  *)
(* only the invocation's own stack record, or the single perf_submit call, *)
(* or the return; the action is named after the first line it models.      *)
(*                                                                         *)
(* Number representation.  TLC integers are 32-bit, so a 64-bit value is   *)
(* a tuple of four 16-bit limbs, most significant first, and an unsigned   *)
(* 32-bit value is a tuple of two limbs.  A C `int` is a TLA+ integer in   *)
(* -2^31 .. 2^31-1.  Bytes are integers 0..255.                            *)
(***************************************************************************)
EXTENDS Integers, Sequences, FiniteSets, TLC

(* ------------------------------------------------------------------ *)
(* Program constants                                                    *)
(* ------------------------------------------------------------------ *)
FILENAME_SIZE == 256
TASK_COMM_LEN == 16
SYS_OPENAT == 1
SYS_WRITE == 2
SYS_UNLINKAT == 3

(* ------------------------------------------------------------------ *)
(* Bounds of the model                                                  *)
(* ------------------------------------------------------------------ *)
MaxEvents == 3
RingCap == 2

CPUs == {0, 1}

Limb == 2^16
HalfLimb == 2^15

(* ------------------------------------------------------------------ *)
(* Fixed-width arithmetic                                               *)
(* ------------------------------------------------------------------ *)
Zero64 == <<0, 0, 0, 0>>

\* x >> 32 on a u64
Shr32(x) == <<0, 0, x[1], x[2]>>

\* (u32) x : the low 32 bits of a u64
TruncU32(x) == <<x[3], x[4]>>

\* (int) x : the low 32 bits of a 64-bit value read as two's complement
ToInt(x) ==
    IF x[3] >= HalfLimb THEN (x[3] - Limb) * Limb + x[4]
                        ELSE x[3] * Limb + x[4]

\* the two limbs of the two's complement encoding of a C int
IntBits(i) == << (i \div Limb) % Limb, i % Limb >>

(* ------------------------------------------------------------------ *)
(* Byte strings                                                         *)
(* ------------------------------------------------------------------ *)
Zeros(n) == [i \in 1..n |-> 0]

\* struct data_t data = {};
ZeroData ==
    [ pid |-> <<0, 0>>,
      comm |-> Zeros(TASK_COMM_LEN),
      filename |-> Zeros(FILENAME_SIZE),
      syscall |-> 0,
      fd |-> 0,
      count |-> Zero64 ]

\* stack contents left by whatever ran before on this CPU
DirtyData ==
    [ pid |-> <<43690, 43690>>,
      comm |-> [i \in 1..TASK_COMM_LEN |-> 170],
      filename |-> [i \in 1..FILENAME_SIZE |-> 170],
      syscall |-> 170,
      fd |-> 170,
      count |-> <<43690, 43690, 43690, 43690>> ]

(* bpf_get_current_pid_tgid(): tgid in the upper 32 bits, tid in the lower *)
GetCurrentPidTgid(task) == task.pid_tgid

(* bpf_get_current_comm(buf, size): the task's comm, NUL padded to size,   *)
(* the last byte always NUL.                                               *)
GetCurrentComm(task, size) ==
    [i \in 1..size |-> IF i <= Len(task.comm) /\ i < size THEN task.comm[i] ELSE 0]

(* bpf_probe_read_user_str(dst, size, unsafe_ptr).  mem is the run of      *)
(* readable user bytes starting at unsafe_ptr (<<>> for an unmapped        *)
(* pointer); the byte after the run is unmapped.  The helper copies bytes  *)
(* into dst up to and including the first NUL, or size bytes if there is   *)
(* none, and then forces dst[size-1] = NUL; a fault on the way clears the  *)
(* whole buffer.  Bytes of dst past the copied ones are left as they were. *)
(* Result: <<dst', ret>>.                                                  *)
EFAULT == 14

\* index (from 1) of the first NUL among the first n bytes of mem, 0 if none
FirstNul(mem, n) ==
    LET nuls == {i \in 1..n : mem[i] = 0}
    IN  IF nuls = {} THEN 0 ELSE CHOOSE i \in nuls : \A j \in nuls : i <= j

ProbeReadUserStr(dst, size, mem) ==
    LET avail == IF Len(mem) < size THEN Len(mem) ELSE size
        nul == FirstNul(mem, avail)
    IN  IF nul # 0 THEN
            << [i \in 1..size |-> IF i <= nul THEN mem[i] ELSE dst[i]], nul >>
        ELSE IF avail = size THEN
            << [i \in 1..size |-> IF i < size THEN mem[i] ELSE 0], size >>
        ELSE
            << Zeros(size), -EFAULT >>

(* ------------------------------------------------------------------ *)
(* Tasks and syscall arguments the kernel can present to a handler      *)
(* ------------------------------------------------------------------ *)
\* two threads of process 100 and one thread of process 200
TaskA  == [pid_tgid |-> <<0, 100, 0, 100>>, comm |-> <<98, 97, 115, 104>>]
TaskA2 == [pid_tgid |-> <<0, 100, 0, 101>>, comm |-> <<98, 97, 115, 104>>]
TaskB  == [pid_tgid |-> <<0, 200, 0, 200>>,
           comm |-> <<101, 110, 99, 114, 121, 112, 116, 111, 114, 45, 109, 97, 105, 110, 49>>]
\* a task whose ids use every bit of both halves
TaskMax == [pid_tgid |-> <<65535, 65534, 32768, 1>>, comm |-> <<>>]

NoTask == [pid_tgid |-> Zero64, comm |-> <<>>]

\* n non-NUL bytes that differ from position to position
PathBytes(seed, n) == [i \in 1..n |-> 1 + ((seed + 7 * i) % 255)]

\* a C string of n bytes in user memory, its terminator, and `tail` more
\* readable bytes after the terminator
TermStr(seed, n, tail) == PathBytes(seed, n) \o <<0>> \o [i \in 1..tail |-> 65 + seed]

\* n readable non-NUL bytes followed by an unmapped page
\* (n = 0: the pointer itself is unmapped, e.g. NULL)
Unterminated(seed, n) == PathBytes(seed, n)

NullPtr == <<>>

\* the register holding a 32-bit argument: upper half unspecified (hi)
Reg32(hi, i) == hi \o IntBits(i)

INT_MAX == (2^30 - 1) * 2 + 1
INT_MIN == -INT_MAX - 1

NoArgs == [filename |-> <<>>, pathname |-> <<>>, fd |-> Zero64, count |-> Zero64]

OpenatArgs(mem) == [NoArgs EXCEPT !.filename = mem]
UnlinkatArgs(mem) == [NoArgs EXCEPT !.pathname = mem]
WriteArgs(reg, cnt) == [NoArgs EXCEPT !.fd = reg, !.count = cnt]

\* kind names the tracepoint that fires: "openat", "write" or "unlinkat"
Syscall(kind, task, a) == [kind |-> kind, task |-> task, args |-> a]

\* the syscalls of the concurrent specification: one per tracepoint, the
\* openat and the write issued by two threads of one process
Workload ==
    { Syscall("openat", TaskA, OpenatArgs(TermStr(1, 5, 2))),
      Syscall("write", TaskA2, WriteArgs(Reg32(<<65535, 65535>>, 3), <<0, 0, 0, 4096>>)),
      Syscall("unlinkat", TaskB, UnlinkatArgs(TermStr(2, 9, 0))) }

\* the syscalls of the single-invocation specification
PathLens == {0, 1, 5, 254, 255, 256, 257, 300}
WideMems ==
    {TermStr(s, n, t) : s \in {1, 2}, n \in PathLens, t \in {0, 3}}
    \cup {Unterminated(3, n) : n \in {0, 4, 255, 256, 300}}
WideTasks == {TaskA, TaskA2, TaskB, TaskMax}
FdArgs == {-1, 0, 3, INT_MAX, INT_MIN}
HiHalves == {<<0, 0>>, <<65535, 65535>>, <<1, 2>>}
Counts == {Zero64, <<0, 0, 0, 4096>>, <<65535, 65535, 65535, 65535>>, <<1, 0, 0, 0>>, <<0, 0, 1, 0>>}
WideWorkload ==
    {Syscall("openat", t, OpenatArgs(m)) : t \in WideTasks, m \in WideMems}
    \cup {Syscall("unlinkat", t, UnlinkatArgs(m)) : t \in WideTasks, m \in WideMems}
    \cup {Syscall("write", t, WriteArgs(Reg32(h, f), n)) :
             t \in WideTasks, h \in HiHalves, f \in FdArgs, n \in Counts}

(* ------------------------------------------------------------------ *)
(* State                                                                *)
(* ------------------------------------------------------------------ *)
VARIABLES
    pc,         \* pc[c]: source line the handler on CPU c executes next, 0 = none
    current,    \* current[c]: the task that entered the syscall on CPU c
    args,       \* args[c]: the tracepoint arguments of the invocation on CPU c
    data,       \* data[c]: the handler's stack slot `struct data_t data`
    retval,     \* retval[c]: what the last handler on CPU c returned
    ring,       \* ring[c]: records in the perf ring of CPU c, oldest first
    lost,       \* lost[c]: records the ring of CPU c refused
    delivered,  \* delivered[c]: entries the consumer has read from ring c, in reading order
    emitted,    \* history: every perf_submit call made so far, numbered per CPU in call order
    inv,        \* history: inv[c] = number and tracepoint of the latest invocation on CPU c
    nInv        \* history: invocations started so far

vars == <<pc, current, args, data, retval, ring, lost, delivered, emitted, inv, nInv>>

NoRet == -1
NoInv == [id |-> 0, kind |-> "none"]

Init ==
    /\ pc = [c \in CPUs |-> 0]
    /\ current = [c \in CPUs |-> NoTask]
    /\ args = [c \in CPUs |-> NoArgs]
    /\ data \in [CPUs -> {ZeroData, DirtyData}]
    /\ retval = [c \in CPUs |-> NoRet]
    /\ ring = [c \in CPUs |-> <<>>]
    /\ lost = [c \in CPUs |-> 0]
    /\ delivered = [c \in CPUs |-> <<>>]
    /\ emitted = {}
    /\ inv = [c \in CPUs |-> NoInv]
    /\ nInv = 0

(* ------------------------------------------------------------------ *)
(* Syscall entry: the kernel fires the tracepoint on the calling CPU    *)
(* ------------------------------------------------------------------ *)
\* a thread runs on one CPU at a time
Running(task) == \E c \in CPUs : pc[c] # 0 /\ current[c] = task

Fire(c, s, entry) ==
    /\ pc[c] = 0
    /\ nInv < MaxEvents
    /\ ~Running(s.task)
    /\ pc' = [pc EXCEPT ![c] = entry]
    /\ current' = [current EXCEPT ![c] = s.task]
    /\ args' = [args EXCEPT ![c] = s.args]
    /\ nInv' = nInv + 1
    /\ inv' = [inv EXCEPT ![c] = [id |-> nInv + 1, kind |-> s.kind]]
    /\ UNCHANGED <<data, retval, ring, lost, delivered, emitted>>

SysEnterOpenat(c) ==
    \E s \in Workload : s.kind = "openat" /\ Fire(c, s, 18)

SysEnterWrite(c) ==
    \E s \in Workload : s.kind = "write" /\ Fire(c, s, 35)

SysEnterUnlinkat(c) ==
    \E s \in Workload : s.kind = "unlinkat" /\ Fire(c, s, 51)

(* ------------------------------------------------------------------ *)
(* The output channel `events`                                          *)
(* ------------------------------------------------------------------ *)
\* variant: a new record goes in front of the records already in the ring
RingPush_Front(q, e) == <<e>> \o q

\* a ring entry: the record bytes, tagged with the invocation that wrote them
Entry(c, rec) == [id |-> inv[c].id, rec |-> rec]

RingFull(c) == Len(ring[c]) >= RingCap

RingPush(q, e) == Append(q, e)

\* variant: one ring and one loss counter, those of CPU 0, shared by the
\* handlers of all CPUs
PerfSubmit_Cpu0(c, rec) ==
    /\ IF RingFull(0)
       THEN /\ lost' = [lost EXCEPT ![0] = lost[0] + 1]
            /\ UNCHANGED ring
       ELSE /\ ring' = [ring EXCEPT ![0] = RingPush(ring[0], Entry(c, rec))]
            /\ UNCHANGED lost
    /\ emitted' = emitted \cup
                     {[id |-> inv[c].id, seq |-> Cardinality({e \in emitted : e.cpu = c}) + 1,
                       cpu |-> c, kind |-> inv[c].kind, task |-> current[c],
                       args |-> args[c], rec |-> rec, accepted |-> ~RingFull(0)]}

\* events.perf_submit(args, &data, sizeof(data)) on CPU c
PerfSubmit(c, rec) ==
    /\ IF RingFull(c)
       THEN /\ lost' = [lost EXCEPT ![c] = lost[c] + 1]
            /\ UNCHANGED ring
       ELSE /\ ring' = [ring EXCEPT ![c] = RingPush(ring[c], Entry(c, rec))]
            /\ UNCHANGED lost
    /\ emitted' = emitted \cup
                     {[id |-> inv[c].id, seq |-> Cardinality({e \in emitted : e.cpu = c}) + 1,
                       cpu |-> c, kind |-> inv[c].kind, task |-> current[c],
                       args |-> args[c], rec |-> rec, accepted |-> ~RingFull(c)]}

\* the consumer reads the oldest record of one ring
Consume(c) ==
    /\ ring[c] # <<>>
    /\ delivered' = [delivered EXCEPT ![c] = Append(delivered[c], Head(ring[c]))]
    /\ ring' = [ring EXCEPT ![c] = Tail(ring[c])]
    /\ UNCHANGED <<pc, current, args, data, retval, lost, emitted, inv, nInv>>

(* ------------------------------------------------------------------ *)
(* Handler statements                                                   *)
(* ------------------------------------------------------------------ *)
\* variant: `data` is one static buffer shared by all CPUs instead of a
\* stack slot per invocation
Stmt_Shared(c, from, to, d) ==
    /\ pc[c] = from
    /\ pc' = [pc EXCEPT ![c] = to]
    /\ data' = [x \in CPUs |-> d]
    /\ UNCHANGED <<current, args, retval, ring, lost, delivered, emitted, inv, nInv>>

\* a statement that writes only the stack record
Stmt(c, from, to, d) ==
    /\ pc[c] = from
    /\ pc' = [pc EXCEPT ![c] = to]
    /\ data' = [data EXCEPT ![c] = d]
    /\ UNCHANGED <<current, args, retval, ring, lost, delivered, emitted, inv, nInv>>

\* variant: perf_submit is given sizeof(data.filename) instead of sizeof(data),
\* so only the first 256 bytes of the struct (pid, comm and the start of
\* filename) are handed over
Submit_WrongSize(c, from, to) ==
    /\ pc[c] = from
    /\ pc' = [pc EXCEPT ![c] = to]
    /\ PerfSubmit(c, [pid |-> data[c].pid, comm |-> data[c].comm,
                      filename |-> SubSeq(data[c].filename, 1, FILENAME_SIZE - TASK_COMM_LEN - 4)])
    /\ UNCHANGED <<current, args, data, retval, delivered, inv, nInv>>

\* events.perf_submit(args, &data, sizeof(data)); its result is not read
Submit(c, from, to) ==
    /\ pc[c] = from
    /\ pc' = [pc EXCEPT ![c] = to]
    /\ PerfSubmit(c, data[c])
    /\ UNCHANGED <<current, args, data, retval, delivered, inv, nInv>>

\* variant: return the result of perf_submit, negative (-ENOSPC) when the
\* ring had no room
Return_SubmitResult(c, from, v) ==
    /\ pc[c] = from
    /\ pc' = [pc EXCEPT ![c] = 0]
    /\ retval' = [retval EXCEPT ![c] =
                    IF \E e \in emitted : e.id = inv[c].id /\ ~e.accepted THEN -28 ELSE v]
    /\ UNCHANGED <<current, args, data, ring, lost, delivered, emitted, inv, nInv>>

\* return v;
Return(c, from, v) ==
    /\ pc[c] = from
    /\ pc' = [pc EXCEPT ![c] = 0]
    /\ retval' = [retval EXCEPT ![c] = v]
    /\ UNCHANGED <<current, args, data, ring, lost, delivered, emitted, inv, nInv>>

\* data.syscall = k;
SetSyscall(d, k) == [d EXCEPT !.syscall = k]

\* variant: the shift is left out, so the lower half of pid_tgid (the thread
\* id) lands in data.pid
SetPid_Tid(d, task) == [d EXCEPT !.pid = TruncU32(GetCurrentPidTgid(task))]

\* data.pid = bpf_get_current_pid_tgid() >> 32;
SetPid(d, task) == [d EXCEPT !.pid = TruncU32(Shr32(GetCurrentPidTgid(task)))]

\* bpf_get_current_comm(&data.comm, sizeof(data.comm));
SetComm(d, task) == [d EXCEPT !.comm = GetCurrentComm(task, TASK_COMM_LEN)]

\* variant: the read is bounded by sizeof(data.comm) instead of sizeof(data.filename)
ReadFilename_CommSize(d, mem) ==
    LET r == ProbeReadUserStr(SubSeq(d.filename, 1, TASK_COMM_LEN), TASK_COMM_LEN, mem)[1]
    IN  [d EXCEPT !.filename =
            [i \in 1..FILENAME_SIZE |-> IF i <= TASK_COMM_LEN THEN r[i] ELSE d.filename[i]]]

\* variant: bpf_probe_read_user, a raw copy of sizeof(data.filename) bytes that
\* neither stops at a NUL nor terminates the buffer
ReadFilename_Raw(d, mem) ==
    [d EXCEPT !.filename =
        IF Len(mem) >= FILENAME_SIZE THEN SubSeq(mem, 1, FILENAME_SIZE)
                                     ELSE Zeros(FILENAME_SIZE)]

\* bpf_probe_read_user_str(&data.filename, sizeof(data.filename), ptr);
ReadFilename(d, mem) ==
    [d EXCEPT !.filename = ProbeReadUserStr(d.filename, FILENAME_SIZE, mem)[1]]

\* data.filename[0] = '\0';
ClearFilename0(d) == [d EXCEPT !.filename[1] = 0]

\* data.fd = v;   (v already converted to int)
SetFd(d, v) == [d EXCEPT !.fd = v]

\* data.count = v;
SetCount(d, v) == [d EXCEPT !.count = v]

\* variant of line 24: return as soon as the path read fails
Openat24_Bail(c) ==
    IF ProbeReadUserStr(data[c].filename, FILENAME_SIZE, args[c].filename)[2] < 0
    THEN Return(c, 24, 0)
    ELSE Stmt(c, 24, 26, ReadFilename(data[c], args[c].filename))

\* variant of lines 41-43: the sentinels of the other two handlers
Write41_Sentinels(c) ==
    Stmt(c, 41, 45, SetCount(SetFd(ClearFilename0(data[c]), -1), Zero64))

\* variant of line 57: reads args->filename, which the unlinkat tracepoint
\* does not carry
Unlinkat57_WrongArg(c) == Stmt(c, 57, 59, ReadFilename(data[c], args[c].filename))

\* variant of line 29: the handler waits until the ring has room
Openat29_Wait(c) == ~RingFull(c) /\ Submit(c, 29, 30)

\* variant of lines 51-54: the syscall code of the write handler, copied over
Unlinkat51_Copied(c) ==
    Stmt(c, 51, 57, SetComm(SetPid(SetSyscall(ZeroData, 2), current[c]), current[c]))

\* variant of line 45: the handler looks at the ring first and skips the
\* submission when there is no room
Write45_SkipFull(c) ==
    IF RingFull(c) THEN Stmt(c, 45, 46, data[c]) ELSE Submit(c, 45, 46)

\* variant of line 30: the handler clears data.fd after the submission,
\* before it returns
Openat30_LateFd(c) ==
    /\ pc[c] = 30
    /\ pc' = [pc EXCEPT ![c] = 0]
    /\ retval' = [retval EXCEPT ![c] = 0]
    /\ data' = [data EXCEPT ![c] = SetFd(data[c], 0)]
    /\ UNCHANGED <<current, args, ring, lost, delivered, emitted, inv, nInv>>

\* variant of line 18: `struct data_t data;` without the initialiser, so the
\* record starts as whatever the stack slot held
Openat18_NoInit(c) ==
    Stmt(c, 18, 24, SetComm(SetPid(SetSyscall(data[c], 1), current[c]), current[c]))

\* variant of line 35: `struct data_t data;` without the initialiser
Write35_NoInit(c) ==
    Stmt(c, 35, 41, SetComm(SetPid(SetSyscall(data[c], 2), current[c]), current[c]))

\* ---------- openat ----------
\* lines 18-21: zero the record, then syscall, pid, comm
Openat18(c) ==
    Stmt(c, 18, 24, SetComm(SetPid(SetSyscall(ZeroData, 1), current[c]), current[c]))
\* line 24: read the path from user memory
Openat24(c) == Stmt(c, 24, 26, ReadFilename(data[c], args[c].filename))
\* lines 26-27: sentinels
Openat26(c) == Stmt(c, 26, 29, SetCount(SetFd(data[c], -1), Zero64))
Openat29(c) == Submit(c, 29, 30)
Openat30(c) == Return(c, 30, 0)

\* ---------- write ----------
\* lines 35-38
Write35(c) ==
    Stmt(c, 35, 41, SetComm(SetPid(SetSyscall(ZeroData, 2), current[c]), current[c]))
\* lines 41-43: empty filename, fd and count from the tracepoint arguments
Write41(c) ==
    Stmt(c, 41, 45, SetCount(SetFd(ClearFilename0(data[c]), ToInt(args[c].fd)), args[c].count))
Write45(c) == Submit(c, 45, 46)
Write46(c) == Return(c, 46, 0)

\* ---------- unlinkat ----------
\* lines 51-54
Unlinkat51(c) ==
    Stmt(c, 51, 57, SetComm(SetPid(SetSyscall(ZeroData, 3), current[c]), current[c]))
\* line 57
Unlinkat57(c) == Stmt(c, 57, 59, ReadFilename(data[c], args[c].pathname))
\* lines 59-60
Unlinkat59(c) == Stmt(c, 59, 62, SetCount(SetFd(data[c], -1), Zero64))
Unlinkat62(c) == Submit(c, 62, 63)
Unlinkat63(c) == Return(c, 63, 0)

OpenatStep(c) ==
    Openat18(c) \/ Openat24(c) \/ Openat26(c) \/ Openat29(c) \/ Openat30(c)

WriteStep(c) ==
    Write35(c) \/ Write41(c) \/ Write45(c) \/ Write46(c)

UnlinkatStep(c) ==
    Unlinkat51(c) \/ Unlinkat57(c) \/ Unlinkat59(c) \/ Unlinkat62(c) \/ Unlinkat63(c)

Next ==
    \E c \in CPUs :
        \/ SysEnterOpenat(c) \/ SysEnterWrite(c) \/ SysEnterUnlinkat(c)
        \/ OpenatStep(c) \/ WriteStep(c) \/ UnlinkatStep(c)
        \/ Consume(c)

Spec == Init /\ [][Next]_vars

(* ------------------------------------------------------------------ *)
(* One invocation on wide inputs: the kernel has just fired one of the  *)
(* tracepoints on one CPU; the stacks hold zeros or leftovers.          *)
(* ------------------------------------------------------------------ *)
EntryLine(kind) == IF kind = "openat" THEN 18 ELSE IF kind = "write" THEN 35 ELSE 51

InitEnc ==
    \E c0 \in CPUs, s \in WideWorkload, g \in {ZeroData, DirtyData} :
        /\ pc = [c \in CPUs |-> IF c = c0 THEN EntryLine(s.kind) ELSE 0]
        /\ current = [c \in CPUs |-> IF c = c0 THEN s.task ELSE NoTask]
        /\ args = [c \in CPUs |-> IF c = c0 THEN s.args ELSE NoArgs]
        /\ data = [c \in CPUs |-> g]
        /\ retval = [c \in CPUs |-> NoRet]
        /\ ring = [c \in CPUs |-> <<>>]
        /\ lost = [c \in CPUs |-> 0]
        /\ delivered = [c \in CPUs |-> <<>>]
        /\ emitted = {}
        /\ inv = [c \in CPUs |-> IF c = c0 THEN [id |-> 1, kind |-> s.kind] ELSE NoInv]
        /\ nInv = 1

NextEnc ==
    \E c \in CPUs : OpenatStep(c) \/ WriteStep(c) \/ UnlinkatStep(c) \/ Consume(c)

SpecEnc == InitEnc /\ [][NextEnc]_vars

(* ------------------------------------------------------------------ *)
(* Properties                                                           *)
(* ------------------------------------------------------------------ *)
\* the documented code of each tracepoint: 1=openat, 2=write, 3=unlinkat
Code(kind) ==
    CASE kind = "openat" -> SYS_OPENAT
      [] kind = "write" -> SYS_WRITE
      [] kind = "unlinkat" -> SYS_UNLINKAT

\* the readable bytes at a path pointer hold a terminated C string
HasCStr(mem) == \E k \in 1..Len(mem) : mem[k] = 0

\* its length, terminator excluded
CStrLen(mem) ==
    CHOOSE n \in 0..(Len(mem) - 1) : mem[n + 1] = 0 /\ \A j \in 1..n : mem[j] # 0

\* the first n bytes at the pointer are readable and none is NUL
NoNulIn(mem, n) == Len(mem) >= n /\ \A j \in 1..n : mem[j] # 0

\* the read of the path faults: the readable run ends before a NUL and
\* before the buffer is full
ReadFaults(mem) == Len(mem) < FILENAME_SIZE /\ \A j \in 1..Len(mem) : mem[j] # 0

\* rec.filename is a whole 256-byte buffer holding the first n bytes of mem
\* and a NUL right after them
HoldsPrefix(rec, mem, n) ==
    /\ DOMAIN rec.filename = 1..FILENAME_SIZE
    /\ \A i \in 1..n : rec.filename[i] = mem[i]
    /\ rec.filename[n + 1] = 0

\* C1: every record the openat handler submits for a readable path of at most
\* 255 bytes has syscall = 1, the path byte for byte followed by a NUL in
\* filename, fd = -1 and count = 0.
C1_OpenatShortPath ==
    \A e \in emitted :
        (e.kind = "openat" /\ HasCStr(e.args.filename)
            /\ CStrLen(e.args.filename) <= FILENAME_SIZE - 1)
        => /\ e.rec.syscall = 1
           /\ HoldsPrefix(e.rec, e.args.filename, CStrLen(e.args.filename))
           /\ e.rec.fd = -1
           /\ e.rec.count = Zero64

\* an openat record for a path of exactly 255 bytes has been submitted
C1_Witness ==
    \E e \in emitted :
        /\ e.kind = "openat" /\ HasCStr(e.args.filename)
        /\ CStrLen(e.args.filename) = FILENAME_SIZE - 1
        /\ e.rec.filename[FILENAME_SIZE - 1] # 0

\* C2: every record the openat handler submits for a path longer than 255
\* bytes has syscall = 1 and a filename of exactly 256 bytes: the first 255
\* bytes of the path and a NUL at index 255 (the last byte).
C2_OpenatLongPath ==
    \A e \in emitted :
        (e.kind = "openat" /\ NoNulIn(e.args.filename, FILENAME_SIZE))
        => /\ e.rec.syscall = 1
           /\ HoldsPrefix(e.rec, e.args.filename, FILENAME_SIZE - 1)

\* an openat record for a terminated path of 300 bytes has been submitted
C2_Witness ==
    \E e \in emitted :
        /\ e.kind = "openat" /\ HasCStr(e.args.filename)
        /\ CStrLen(e.args.filename) = 300
        /\ e.rec.filename[FILENAME_SIZE - 1] # 0

\* C3: every record the write handler submits has syscall = 2, an empty
\* filename, count equal to the count argument, and an fd whose 32-bit
\* two's complement encoding is the low half of the fd argument register
\* (the fd the caller passed, read as a signed 32-bit integer).
C3_WriteRecord ==
    \A e \in emitted :
        e.kind = "write"
        => /\ e.rec.syscall = 2
           /\ e.rec.filename[1] = 0
           /\ e.rec.fd \in INT_MIN..INT_MAX
           /\ IntBits(e.rec.fd) = <<e.args.fd[3], e.args.fd[4]>>
           /\ e.rec.count = e.args.count

\* a write record for fd = -1 passed in a register with a nonzero upper half,
\* and a count with its top bits set, has been submitted
C3_Witness ==
    \E e \in emitted :
        /\ e.kind = "write"
        /\ e.args.fd = <<1, 2, 65535, 65535>>
        /\ e.rec.fd = -1
        /\ e.rec.count = <<65535, 65535, 65535, 65535>>

\* C4: every record the unlinkat handler submits for a readable pathname has
\* syscall = 3, the pathname cut to at most 255 bytes and NUL-terminated in
\* filename, fd = -1 and count = 0.
C4_UnlinkatRecord ==
    \A e \in emitted :
        (e.kind = "unlinkat"
            /\ (HasCStr(e.args.pathname) \/ NoNulIn(e.args.pathname, FILENAME_SIZE)))
        => /\ e.rec.syscall = 3
           /\ HoldsPrefix(e.rec, e.args.pathname,
                          IF NoNulIn(e.args.pathname, FILENAME_SIZE)
                          THEN FILENAME_SIZE - 1
                          ELSE CStrLen(e.args.pathname))
           /\ e.rec.fd = -1
           /\ e.rec.count = Zero64

\* an unlinkat record for a terminated pathname of 257 bytes has been
\* submitted, cut after byte 255
C4_Witness ==
    \E e \in emitted :
        /\ e.kind = "unlinkat" /\ HasCStr(e.args.pathname)
        /\ CStrLen(e.args.pathname) = 257
        /\ e.rec.filename[FILENAME_SIZE - 1] # 0
        /\ e.rec.filename[FILENAME_SIZE] = 0

\* the user memory at the path pointer of the latest openat or unlinkat
\* invocation on CPU c
PathArg(c) == IF inv[c].kind = "openat" THEN args[c].filename ELSE args[c].pathname

\* the perf_submit calls made by invocation id
SubmitsOf(id) == {e \in emitted : e.id = id}

\* C5: an openat or unlinkat invocation whose path read faults still reaches
\* its return having made exactly one perf_submit call, and the record has the
\* handler's syscall kind, the caller's tgid and comm, an empty filename,
\* fd = -1 and count = 0.
C5_FaultStillSubmits ==
    /\ \A c \in CPUs :
          (inv[c].kind \in {"openat", "unlinkat"} /\ ReadFaults(PathArg(c)))
          => Cardinality(SubmitsOf(inv[c].id)) = (IF pc[c] \in {0, 30, 63} THEN 1 ELSE 0)
    /\ \A e \in emitted :
          (e.kind \in {"openat", "unlinkat"}
              /\ ReadFaults(IF e.kind = "openat" THEN e.args.filename ELSE e.args.pathname))
          => /\ e.rec.syscall = Code(e.kind)
             /\ e.rec.pid = <<e.task.pid_tgid[1], e.task.pid_tgid[2]>>
             /\ \A i \in 1..TASK_COMM_LEN :
                   e.rec.comm[i] = IF i <= Len(e.task.comm) THEN e.task.comm[i] ELSE 0
             /\ e.rec.filename[1] = 0
             /\ e.rec.fd = -1
             /\ e.rec.count = Zero64

\* an openat invocation whose path runs into an unmapped page after 255
\* readable bytes has returned, its one record accepted by the ring
C5_Witness ==
    \E c \in CPUs :
        /\ pc[c] = 0 /\ inv[c].kind = "openat"
        /\ Len(PathArg(c)) = FILENAME_SIZE - 1 /\ ReadFaults(PathArg(c))
        /\ \E e \in SubmitsOf(inv[c].id) : e.rec.filename = Zeros(FILENAME_SIZE) /\ e.accepted

(* ---------------- concurrent handlers and the channel ---------------- *)
\* the path the record of submission e should hold
PathOf(e) == IF e.kind = "openat" THEN e.args.filename ELSE e.args.pathname

\* record e.rec is what the invocation that submitted it was given: the
\* caller's tgid and comm, the tracepoint's code and its arguments
OwnFields(e) ==
    /\ e.rec.pid = <<e.task.pid_tgid[1], e.task.pid_tgid[2]>>
    /\ \A i \in 1..TASK_COMM_LEN :
          e.rec.comm[i] = IF i <= Len(e.task.comm) THEN e.task.comm[i] ELSE 0
    /\ e.rec.syscall = Code(e.kind)
    /\ IF e.kind = "write"
       THEN /\ IntBits(e.rec.fd) = <<e.args.fd[3], e.args.fd[4]>>
            /\ e.rec.count = e.args.count
            /\ e.rec.filename[1] = 0
       ELSE /\ e.rec.fd = -1
            /\ e.rec.count = Zero64
            /\ IF ReadFaults(PathOf(e)) THEN e.rec.filename[1] = 0
               ELSE HoldsPrefix(e.rec, PathOf(e),
                                IF NoNulIn(PathOf(e), FILENAME_SIZE) THEN FILENAME_SIZE - 1
                                ELSE CStrLen(PathOf(e)))

\* C6: whatever the interleaving of handlers on different CPUs, every record
\* handed to perf_submit carries the tgid and comm of the task that entered the
\* syscall of that invocation, and that invocation's syscall code and arguments.
C6_NoCrossContamination == \A e \in emitted : OwnFields(e)

\* two invocations for tasks of different processes overlapped: both have
\* submitted and neither has returned
C6_Witness ==
    /\ pc[0] \in {30, 46, 63} /\ pc[1] \in {30, 46, 63}
    /\ current[0].pid_tgid[2] # current[1].pid_tgid[2]
    /\ \E e0, e1 \in emitted : e0.id = inv[0].id /\ e1.id = inv[1].id

\* rec has all six fields of struct data_t at their full sizes
WholeRecord(rec) ==
    /\ DOMAIN rec = {"pid", "comm", "filename", "syscall", "fd", "count"}
    /\ DOMAIN rec.pid = 1..2
    /\ DOMAIN rec.comm = 1..TASK_COMM_LEN
    /\ DOMAIN rec.filename = 1..FILENAME_SIZE
    /\ DOMAIN rec.count = 1..4

\* every entry the consumer has read is a whole record, is the record of
\* exactly one accepted perf_submit call on that CPU, has been read once, and
\* is no longer in a ring
DeliveredOnceAndIntact ==
    \A c \in CPUs : \A i \in DOMAIN delivered[c] :
        LET d == delivered[c][i]
        IN  /\ WholeRecord(d.rec)
            /\ Cardinality({e \in emitted :
                              e.id = d.id /\ e.cpu = c /\ e.accepted /\ e.rec = d.rec}) = 1
            /\ Cardinality(SubmitsOf(d.id)) = 1
            /\ \A c2 \in CPUs :
                  /\ \A j \in DOMAIN delivered[c2] :
                        (c2 # c \/ j # i) => delivered[c2][j].id # d.id
                  /\ \A k \in DOMAIN ring[c2] : ring[c2][k].id # d.id

LostMonotone == \A c \in CPUs : lost'[c] >= lost[c]

\* C7: the loss counters never decrease, and every record the consumer reads
\* is a whole record equal to exactly one submitted record, read at most once.
C7_DeliveryIntegrity == [](DeliveredOnceAndIntact) /\ [][LostMonotone]_vars

\* a ring overflowed and the consumer then drained it
C7_Witness ==
    \E c \in CPUs : lost[c] >= 1 /\ Len(delivered[c]) = RingCap /\ ring[c] = <<>>

AtSubmit(c) == pc[c] \in {29, 45, 62}
AtReturn(c) == pc[c] \in {30, 46, 63}

\* a handler at its perf_submit or at its return can always take that step
NeverBlocked ==
    \A c \in CPUs :
        /\ AtSubmit(c) => ENABLED (Openat29(c) \/ Write45(c) \/ Unlinkat62(c))
        /\ AtReturn(c) => ENABLED (Openat30(c) \/ Write46(c) \/ Unlinkat63(c))

\* a perf_submit on a full ring leaves every ring as it was, adds one to the
\* CPU's loss counter and moves the handler on to its return
DropNewest ==
    \A c \in CPUs :
        (AtSubmit(c) /\ RingFull(c) /\ pc'[c] # pc[c])
        => /\ ring' = ring
           /\ lost' = [lost EXCEPT ![c] = lost[c] + 1]
           /\ delivered' = delivered
           /\ pc'[c] = pc[c] + 1 /\ AtReturn(c)'

\* C8: a submission to a full ring drops the incoming record, leaves the
\* ring's records unchanged and increments the loss counter, and the handler
\* goes on to return; a handler never waits for the consumer.
C8_OverflowDropsNewest == [](NeverBlocked) /\ [][DropNewest]_vars

\* a handler has returned 0 after its record was refused by a full ring that
\* still holds the older records
C8_Witness ==
    \E e \in emitted :
        /\ ~e.accepted
        /\ pc[e.cpu] = 0 /\ inv[e.cpu].id = e.id /\ retval[e.cpu] = 0
        /\ Len(ring[e.cpu]) = RingCap /\ lost[e.cpu] = 1
        /\ \A k \in DOMAIN ring[e.cpu] : ring[e.cpu][k].id # e.id

\* position of invocation id's perf_submit among the perf_submit calls of its CPU
SeqOf(id) == (CHOOSE e \in emitted : e.id = id).seq

\* what the consumer has read from ring c followed by what it will read next
Channel(c) == delivered[c] \o ring[c]

\* C9: for each CPU, the records read from its ring followed by those still in
\* it are exactly the accepted submissions of that CPU, in submission order.
C9_PerCpuFifo ==
    \A c \in CPUs :
        LET q == Channel(c)
        IN  /\ \A i \in DOMAIN q :
                  \E e \in emitted :
                      e.id = q[i].id /\ e.cpu = c /\ e.accepted /\ e.rec = q[i].rec
            /\ \A i, j \in DOMAIN q : i < j => SeqOf(q[i].id) < SeqOf(q[j].id)
            /\ Len(q) = Cardinality({e \in emitted : e.cpu = c /\ e.accepted})

\* two records of one CPU are in its channel, the first read and the second
\* not yet, while a record of the other CPU whose invocation started after
\* both has already been read
C9_Witness ==
    \E c, c2 \in CPUs :
        /\ c # c2
        /\ Len(delivered[c]) = 1 /\ Len(ring[c]) = 1
        /\ Len(delivered[c2]) = 1
        /\ ring[c][1].id < delivered[c2][1].id

\* C10: every record in a ring has syscall 1, 2 or 3, and the value is the
\* code of the handler that produced it: 1 openat, 2 write, 3 unlinkat.
C10_SyscallCodes ==
    \A c \in CPUs : \A i \in DOMAIN ring[c] :
        LET r == ring[c][i]
        IN  /\ r.rec.syscall \in {1, 2, 3}
            /\ \E e \in emitted :
                  /\ e.id = r.id
                  /\ (r.rec.syscall = 1) <=> (e.kind = "openat")
                  /\ (r.rec.syscall = 2) <=> (e.kind = "write")
                  /\ (r.rec.syscall = 3) <=> (e.kind = "unlinkat")

\* the rings hold a record of each of the three handlers at once
C10_Witness ==
    \A k \in {1, 2, 3} :
        \E c \in CPUs : \E i \in DOMAIN ring[c] : ring[c][i].rec.syscall = k

(* ------------------------------------------------------------------ *)
(* The memory image of struct data_t: what perf_submit copies from      *)
(* &data for sizeof(data) bytes.                                        *)
(* ------------------------------------------------------------------ *)
\* variant: the members declared in the order kind, pid, comm, filename,
\* fd, count
DataFields_KindFirst ==
    << [name |-> "syscall",  size |-> 4,              align |-> 4],
       [name |-> "pid",      size |-> 4,              align |-> 4],
       [name |-> "comm",     size |-> TASK_COMM_LEN,  align |-> 1],
       [name |-> "filename", size |-> FILENAME_SIZE,  align |-> 1],
       [name |-> "fd",       size |-> 4,              align |-> 4],
       [name |-> "count",    size |-> 8,              align |-> 8] >>

\* the members of struct data_t in declaration order, with the size and
\* alignment of their types (u32, char[], int, u64)
DataFields ==
    << [name |-> "pid",      size |-> 4,              align |-> 4],
       [name |-> "comm",     size |-> TASK_COMM_LEN,  align |-> 1],
       [name |-> "filename", size |-> FILENAME_SIZE,  align |-> 1],
       [name |-> "syscall",  size |-> 4,              align |-> 4],
       [name |-> "fd",       size |-> 4,              align |-> 4],
       [name |-> "count",    size |-> 8,              align |-> 8] >>

\* the least multiple of a that is >= n
AlignUp(n, a) == ((n + a - 1) \div a) * a

\* offset of the k-th member: the end of the member before it, rounded up to
\* the member's alignment
RECURSIVE OffsetAt(_)
OffsetAt(k) ==
    IF k = 1 THEN 0
    ELSE AlignUp(OffsetAt(k - 1) + DataFields[k - 1].size, DataFields[k].align)

\* sizeof(data): the end of the last member, rounded up to the strictest
\* member alignment
SizeofData ==
    LET n == Len(DataFields)
        a == CHOOSE x \in {DataFields[k].align : k \in 1..n} :
                 \A k \in 1..n : DataFields[k].align <= x
    IN  AlignUp(OffsetAt(n) + DataFields[n].size, a)

\* the bytes of an integer given as 16-bit limbs, most significant limb
\* first, in the byte order of the host (le: little-endian)
IntBytes(limbs, le) ==
    LET n  == 2 * Len(limbs)
        be == [i \in 1..n |-> IF i % 2 = 1 THEN limbs[(i + 1) \div 2] \div 256
                                           ELSE limbs[i \div 2] % 256]
    IN  IF le THEN [i \in 1..n |-> be[n + 1 - i]] ELSE be

\* the bytes of member name of record rec
FieldBytes(rec, name, le) ==
    CASE name = "pid"      -> IntBytes(rec.pid, le)
      [] name = "comm"     -> rec.comm
      [] name = "filename" -> rec.filename
      [] name = "syscall"  -> IntBytes(IntBits(rec.syscall), le)
      [] name = "fd"       -> IntBytes(IntBits(rec.fd), le)
      [] name = "count"    -> IntBytes(rec.count, le)

\* offsetof(struct data_t, k-th member), for every member
Offsets == [k \in DOMAIN DataFields |-> OffsetAt(k)]

\* the member that owns the byte at each offset of the struct, 0 for padding
MemberAt ==
    [o \in 0..(SizeofData - 1) |->
        LET owns == {k \in DOMAIN DataFields :
                        Offsets[k] <= o /\ o < Offsets[k] + DataFields[k].size}
        IN  IF owns = {} THEN 0 ELSE CHOOSE k \in owns : TRUE]

\* the sizeof(data) bytes at &data, by offset; pad is what the padding
\* bytes between members happen to hold
Image(rec, le, pad) ==
    LET fb == [k \in DOMAIN DataFields |-> FieldBytes(rec, DataFields[k].name, le)]
    IN  [o \in DOMAIN MemberAt |->
            IF MemberAt[o] = 0 THEN pad
            ELSE fb[MemberAt[o]][o - Offsets[MemberAt[o]] + 1]]

\* contents of padding bytes considered
PadBytes == {0, 170}

\* the n bytes of image img from offset off on
BytesAt(img, off, n) == [i \in 1..n |-> img[off + i - 1]]

\* the 16-bit limbs, most significant first, of the integer stored in bytes
LimbsOf(bytes, le) ==
    LET n  == Len(bytes)
        be == IF le THEN [i \in 1..n |-> bytes[n + 1 - i]] ELSE bytes
    IN  [k \in 1..(n \div 2) |-> be[2 * k - 1] * 256 + be[2 * k]]

\* a consumer that reads image img with the six members at the given offsets
\* gets the fields of rec
ReadsAs(img, le, rec, oKind, oPid, oComm, oPath, oFd, oCount) ==
    /\ LimbsOf(BytesAt(img, oKind, 4), le) = IntBits(rec.syscall)
    /\ LimbsOf(BytesAt(img, oPid, 4), le) = rec.pid
    /\ BytesAt(img, oComm, TASK_COMM_LEN) = rec.comm
    /\ BytesAt(img, oPath, FILENAME_SIZE) = rec.filename
    /\ LimbsOf(BytesAt(img, oFd, 4), le) = IntBits(rec.fd)
    /\ LimbsOf(BytesAt(img, oCount, 8), le) = rec.count

\* C11 as stated: the image of every submitted record is 296 bytes holding
\* syscall_kind, pid, comm, path, fd, byte_count in that order, each at its
\* natural alignment: kind at 0, pid at 4, comm at 8, path at 24, fd at 280,
\* byte_count at 288.
C11_KindFirstLayout ==
    \A e \in emitted : \A le \in BOOLEAN, pad \in PadBytes :
        LET img == Image(e.rec, le, pad)
        IN  /\ DOMAIN img = 0..295
            /\ ReadsAs(img, le, e.rec, 0, 4, 8, 24, 280, 288)

\* C11: the image of every record submitted by any of the three handlers is
\* 296 bytes holding the members in declaration order at the same offsets:
\* pid (4 bytes) at 0, comm (16) at 4, filename (256) at 20, syscall (4) at
\* 276, fd (4) at 280, count (8) at 288, whatever the byte order of the host
\* and the contents of the padding at 284..287.
C11_RecordLayout ==
    \A e \in emitted : \A le \in BOOLEAN, pad \in PadBytes :
        LET img == Image(e.rec, le, pad)
        IN  /\ DOMAIN img = 0..295
            /\ ReadsAs(img, le, e.rec, 276, 0, 4, 20, 280, 288)

\* a write record with a negative fd and a count that fills all eight bytes
\* has been submitted, and on a little-endian host its image starts with the
\* low byte of the pid and holds the code 2 at offset 276
C11_Witness ==
    \E e \in emitted :
        /\ e.kind = "write" /\ e.rec.fd < 0 /\ e.rec.count[1] # 0
        /\ e.rec.pid[2] % 256 # 2
        /\ Image(e.rec, TRUE, 0)[0] = e.rec.pid[2] % 256
        /\ Image(e.rec, TRUE, 0)[276] = 2

(* ------------------------------------------------------------------ *)
(* One invocation on wide inputs arriving at a busy channel: the ring   *)
(* of its CPU is full of records of earlier write invocations, which    *)
(* the consumer may or may not read before the handler submits.         *)
(* ------------------------------------------------------------------ *)
\* an earlier write syscall and the record its handler built
BacklogCall == CHOOSE s \in Workload : s.kind = "write"

BacklogRec ==
    SetCount(SetFd(ClearFilename0(
                 SetComm(SetPid(SetSyscall(ZeroData, 2), BacklogCall.task), BacklogCall.task)),
                   ToInt(BacklogCall.args.fd)), BacklogCall.args.count)

InitBusy ==
    \E c0 \in CPUs, s \in WideWorkload, g \in {ZeroData, DirtyData} :
        /\ pc = [c \in CPUs |-> IF c = c0 THEN EntryLine(s.kind) ELSE 0]
        /\ current = [c \in CPUs |-> IF c = c0 THEN s.task ELSE NoTask]
        /\ args = [c \in CPUs |-> IF c = c0 THEN s.args ELSE NoArgs]
        /\ data = [c \in CPUs |-> g]
        /\ retval = [c \in CPUs |-> NoRet]
        /\ ring = [c \in CPUs |->
                     IF c = c0 THEN [i \in 1..RingCap |-> [id |-> i, rec |-> BacklogRec]]
                     ELSE <<>>]
        /\ lost = [c \in CPUs |-> 0]
        /\ delivered = [c \in CPUs |-> <<>>]
        /\ emitted = {[id |-> i, seq |-> i, cpu |-> c0, kind |-> "write",
                       task |-> BacklogCall.task, args |-> BacklogCall.args,
                       rec |-> BacklogRec, accepted |-> TRUE] : i \in 1..RingCap}
        /\ inv = [c \in CPUs |->
                    IF c = c0 THEN [id |-> RingCap + 1, kind |-> s.kind] ELSE NoInv]
        /\ nInv = RingCap + 1

SpecBusy == InitBusy /\ [][NextEnc]_vars

\* a handler that has returned has returned 0
ReturnsZero == \A c \in CPUs : (pc[c] = 0 /\ inv[c].id # 0) => retval[c] = 0

\* a step of the handler running on CPU c
HandlerStep(c) == pc[c] # 0 /\ pc'[c] # pc[c]

\* a handler step leaves the task and the syscall arguments alone, writes the
\* return value only when it returns, touches no other CPU's stack or return
\* value and nothing the consumer has read, and changes the channel only at
\* its perf_submit
HandlerFrame ==
    \A c \in CPUs :
        HandlerStep(c)
        => /\ args' = args /\ current' = current
           /\ delivered' = delivered
           /\ \A c2 \in CPUs \ {c} :
                 pc'[c2] = pc[c2] /\ data'[c2] = data[c2] /\ retval'[c2] = retval[c2]
           /\ (~AtReturn(c)) => retval'[c] = retval[c]
           /\ (~AtSubmit(c)) => (ring' = ring /\ lost' = lost)

\* C12: every handler invocation returns 0, whether the path read succeeded
\* or faulted and whether the ring took the record or dropped it, and no
\* handler step changes the task, the syscall arguments or anything but its
\* own stack record and, at perf_submit, the channel.
C12_ReturnsZeroObserverOnly == [](ReturnsZero) /\ [][HandlerFrame]_vars

\* an openat handler has returned 0 after its path read faulted and its
\* record was dropped by the full ring
C12_Witness ==
    \E c \in CPUs :
        /\ pc[c] = 0 /\ retval[c] = 0 /\ inv[c].kind = "openat"
        /\ ReadFaults(args[c].filename)
        /\ lost[c] = 1
        /\ \E e \in emitted : e.id = inv[c].id /\ ~e.accepted

(* ---------------- counting submissions ---------------- *)
\* the invocation on CPU c, if any, has not reached its perf_submit yet
BeforeSubmit(c) == pc[c] \notin {0, 30, 46, 63}

\* sum of f over the CPUs in S
RECURSIVE SumOver(_, _)
SumOver(f, S) ==
    IF S = {} THEN 0
    ELSE LET c == CHOOSE x \in S : TRUE IN f[c] + SumOver(f, S \ {c})

Delivered == SumOver([c \in CPUs |-> Len(delivered[c])], CPUs)
Queued    == SumOver([c \in CPUs |-> Len(ring[c])], CPUs)
Dropped   == SumOver(lost, CPUs)

\* C13: every invocation makes no perf_submit call before its submit line and
\* exactly one from then on, each for its own tracepoint, so the number of
\* calls is the number of syscall entries less those still before their
\* submit line; and the records read, queued and dropped add up to the number
\* of calls, hence read plus dropped is the number of syscall entries once all
\* handlers have returned and the rings are empty.
C13_ExactlyOneSubmission ==
    /\ \A id \in 1..nInv :
          /\ Cardinality(SubmitsOf(id)) =
                (IF \E c \in CPUs : inv[c].id = id /\ BeforeSubmit(c) THEN 0 ELSE 1)
          /\ \A c \in CPUs : \A e \in SubmitsOf(id) :
                inv[c].id = id => (e.kind = inv[c].kind /\ e.cpu = c)
    /\ \A e \in emitted : e.id \in 1..nInv
    /\ Cardinality(emitted) = nInv - Cardinality({c \in CPUs : BeforeSubmit(c)})
    /\ Delivered + Queued + Dropped = Cardinality(emitted)
    /\ ((\A c \in CPUs : pc[c] = 0 /\ ring[c] = <<>>) => Delivered + Dropped = nInv)

\* all MaxEvents syscalls have entered and returned, the consumer has drained
\* the rings, and both read and dropped records are among the submissions
C13_Witness ==
    /\ nInv = MaxEvents
    /\ \A c \in CPUs : pc[c] = 0 /\ ring[c] = <<>>
    /\ Delivered >= 1 /\ Dropped >= 1
    /\ Cardinality(emitted) = MaxEvents

(* ---------------- submission is the last write ---------------- *)
\* at its perf_submit line a handler's stack record is whole and holds the
\* values of its own invocation in all six fields; from the submission to the
\* return the stack record is the record that was submitted; and every record
\* in a ring is the record of an accepted submission of that CPU
SubmittedComplete ==
    \A c \in CPUs :
        /\ AtSubmit(c)
           => /\ WholeRecord(data[c])
              /\ OwnFields([kind |-> inv[c].kind, task |-> current[c],
                            args |-> args[c], rec |-> data[c]])
        /\ AtReturn(c) => \E e \in emitted : e.id = inv[c].id /\ e.rec = data[c]
        /\ \A i \in DOMAIN ring[c] :
              \E e \in emitted :
                  /\ e.id = ring[c][i].id /\ e.cpu = c /\ e.accepted
                  /\ e.rec = ring[c][i].rec

\* a submission is recorded once with the stack record of that moment and
\* never revised; a ring changes only by the consumer taking its head or a
\* submission adding one record behind the others, which stay as they are;
\* and the step from a handler's submission to its return writes neither the
\* stack record nor the channel
SubmittedFrozen ==
    /\ emitted \subseteq emitted'
    /\ \A e \in emitted' \ emitted :
          AtSubmit(e.cpu) /\ e.id = inv[e.cpu].id /\ e.rec = data[e.cpu]
    /\ \A c \in CPUs :
          /\ \/ ring'[c] = ring[c]
             \/ /\ ring[c] # <<>>
                /\ ring'[c] = Tail(ring[c])
                /\ delivered'[c] = Append(delivered[c], Head(ring[c]))
             \/ /\ Len(ring'[c]) = Len(ring[c]) + 1
                /\ SubSeq(ring'[c], 1, Len(ring[c])) = ring[c]
          /\ (AtReturn(c) /\ HandlerStep(c))
             => (data' = data /\ ring' = ring /\ lost' = lost)

\* C14: all six fields hold the invocation's values when perf_submit is
\* called, nothing is written between the submission and the return, and a
\* record in a ring stays equal to the stack record of its submission, through
\* every later step of the same, a later or a concurrent invocation, until the
\* consumer reads it.
C14_SubmissionIsLastWrite == [](SubmittedComplete) /\ [][SubmittedFrozen]_vars

\* a ring holds a record while a later invocation on the same CPU has
\* rewritten the stack record and a handler runs on the other CPU
C14_Witness ==
    \E c, c2 \in CPUs :
        /\ c # c2 /\ pc[c2] # 0
        /\ ring[c] # <<>>
        /\ ring[c][1].id < inv[c].id /\ AtReturn(c)
        /\ data[c] # ring[c][1].rec

(* ------------------------------------------------------------------ *)
(* One invocation for a task whose pid_tgid ranges over the corners of  *)
(* the 64-bit range, limb by limb.                                      *)
(* ------------------------------------------------------------------ *)
PidLimbs == {0, 1, HalfLimb, Limb - 1}

PidTgids == {<<a, b, c, d>> : a \in PidLimbs, b \in PidLimbs, c \in PidLimbs, d \in PidLimbs}

PidWorkload ==
    {Syscall(s.kind, [pid_tgid |-> x, comm |-> s.task.comm], s.args) :
        s \in Workload, x \in PidTgids}

InitPid ==
    \E c0 \in CPUs, s \in PidWorkload, g \in {ZeroData, DirtyData} :
        /\ pc = [c \in CPUs |-> IF c = c0 THEN EntryLine(s.kind) ELSE 0]
        /\ current = [c \in CPUs |-> IF c = c0 THEN s.task ELSE NoTask]
        /\ args = [c \in CPUs |-> IF c = c0 THEN s.args ELSE NoArgs]
        /\ data = [c \in CPUs |-> g]
        /\ retval = [c \in CPUs |-> NoRet]
        /\ ring = [c \in CPUs |-> <<>>]
        /\ lost = [c \in CPUs |-> 0]
        /\ delivered = [c \in CPUs |-> <<>>]
        /\ emitted = {}
        /\ inv = [c \in CPUs |-> IF c = c0 THEN [id |-> 1, kind |-> s.kind] ELSE NoInv]
        /\ nInv = 1

SpecPid == InitPid /\ [][NextEnc]_vars

\* the task with the upper half of t's pid_tgid and lower half lo
SameProcess(t, lo) ==
    [t EXCEPT !.pid_tgid = <<t.pid_tgid[1], t.pid_tgid[2], lo[1], lo[2]>>]

\* C15: the pid of every submitted record is the upper 32 bits of the
\* caller's pid_tgid, whatever the 64-bit value, and the handler computes the
\* same pid for any other thread of that process, i.e. for any other lower
\* 32 bits.
C15_PidIsTgid ==
    \A e \in emitted :
        /\ e.rec.pid = <<e.task.pid_tgid[1], e.task.pid_tgid[2]>>
        /\ \A lo \in PidLimbs \X PidLimbs :
              SetPid(ZeroData, SameProcess(e.task, lo)).pid = e.rec.pid

\* a record has been submitted for a thread whose tgid has its top bit set
\* and differs from its tid in both halves
C15_Witness ==
    \E e \in emitted :
        /\ e.task.pid_tgid = <<Limb - 1, HalfLimb, 0, 1>>
        /\ e.rec.pid = <<Limb - 1, HalfLimb>>

(* ---------------- no state between invocations ---------------- *)
\* submissions e1 and e2 were made for the same tracepoint, task, arguments
\* and user memory at the path pointer
SameInputs(e1, e2) == e1.kind = e2.kind /\ e1.task = e2.task /\ e1.args = e2.args

\* C16: any two submissions made for the same tracepoint, task metadata,
\* syscall arguments and user memory carry identical records, whichever CPU
\* they ran on, whatever its stack held and whatever invocations came before.
C16_RecordDependsOnInputsOnly ==
    \A e1, e2 \in emitted : SameInputs(e1, e2) => e1.rec = e2.rec

\* the same openat was handled twice on one CPU, with an unlinkat of a longer
\* path handled on that CPU in between
C16_Witness ==
    \E e1, e2, e3 \in emitted :
        /\ e1.kind = "openat" /\ e2.kind = "unlinkat" /\ e3.kind = "openat"
        /\ e1.cpu = e2.cpu /\ e2.cpu = e3.cpu
        /\ e1.id < e2.id /\ e2.id < e3.id
        /\ SameInputs(e1, e3)
        /\ CStrLen(e2.args.pathname) > CStrLen(e1.args.filename)

(* ---------------- one writer per ring ---------------- *)
\* the perf_submit step of the handler on CPU c either adds one record to the
\* ring of c or, the ring of c being full, adds one to the loss counter of c,
\* and leaves the rings and loss counters of all other CPUs as they were; and
\* a ring grows or a loss counter moves only by the perf_submit step of the
\* handler running on its own CPU
OwnRingOnly ==
    \A c \in CPUs :
        /\ (AtSubmit(c) /\ HandlerStep(c))
           => /\ \A c2 \in CPUs \ {c} : ring'[c2] = ring[c2] /\ lost'[c2] = lost[c2]
              /\ IF RingFull(c)
                 THEN ring'[c] = ring[c] /\ lost'[c] = lost[c] + 1
                 ELSE /\ Len(ring'[c]) = Len(ring[c]) + 1
                      /\ SubSeq(ring'[c], 1, Len(ring[c])) = ring[c]
                      /\ ring'[c][Len(ring'[c])].id = inv[c].id
                      /\ lost'[c] = lost[c]
        /\ (Len(ring'[c]) > Len(ring[c]) \/ lost'[c] # lost[c])
           => (AtSubmit(c) /\ HandlerStep(c))

\* C17: a submission by the handler on CPU c changes only the ring of c or,
\* on overflow, only the loss counter of c; no other CPU's ring or counter
\* changes, and nothing but the handler on CPU c ever adds to the ring of c.
C17_OwnRingOnly == [][OwnRingOnly]_vars

\* the handler on one CPU has just submitted into its ring while the other
\* CPU's ring holds a record and the other CPU's handler stands at its own
\* perf_submit
C17_Witness ==
    \E c, c2 \in CPUs :
        /\ c # c2
        /\ AtReturn(c) /\ ring[c] # <<>> /\ ring[c][Len(ring[c])].id = inv[c].id
        /\ ring[c2] # <<>> /\ AtSubmit(c2)

(* ---------------- nothing after the terminator ---------------- *)
\* buffer f holds a NUL, and every byte from its first NUL on is zero: the
\* last byte is zero and a zero byte is never followed by a nonzero one
ZeroAfterNul(f) ==
    /\ f # <<>> /\ f[Len(f)] = 0
    /\ \A j \in 1..(Len(f) - 1) : f[j] = 0 => f[j + 1] = 0

\* C18: in every submitted record the filename is 256 bytes whose bytes from
\* the first NUL on are all zero, and the filename of a write record is 256
\* zero bytes, whatever the stack slot held before the handler ran.
C18_NoStaleFilenameBytes ==
    \A e \in emitted :
        /\ DOMAIN e.rec.filename = 1..FILENAME_SIZE
        /\ ZeroAfterNul(e.rec.filename)
        /\ e.kind = "write" => e.rec.filename = Zeros(FILENAME_SIZE)

\* on stacks full of leftovers, an openat record has been submitted for a
\* 5-byte path that is followed by non-NUL bytes in user memory, and its
\* filename is zero from index 5 to the end
C18_Witness ==
    \E e \in emitted :
        /\ \A c \in CPUs \ {e.cpu} : data[c] = DirtyData
        /\ e.kind = "openat"
        /\ Len(e.args.filename) = 9 /\ CStrLen(e.args.filename) = 5
        /\ e.args.filename[7] # 0
        /\ e.rec.filename[5] # 0
        /\ \A j \in 6..FILENAME_SIZE : e.rec.filename[j] = 0

====
